---- MODULE Spec2Model ----
(***************************************************************************)
(* The in-memory entity store of src/src/api.py: two insertion-ordered     *)
(* dictionaries (users_db, tasks_db) and the request handlers over them.   *)
(* Every handler is a pure operator from the store and its arguments to a  *)
(* response (status, body) and the store it leaves; the actions apply the  *)
(* handlers to the state.                                                  *)
(***************************************************************************)
EXTENDS Integers, Sequences, FiniteSets, TLC

VARIABLES users_db, tasks_db, issued, creates, last, inflight, cli, util, config

vars == <<users_db, tasks_db, issued, creates, last, inflight, cli, util, config>>

----------------------------------------------------------------------------
(* Values *)

\* Optional[T]: None is the empty tuple, a present value s is <<s>>.
None == <<>>

Some(s) == <<s>>

\* Python truthiness of an Optional[str]: None and "" are both falsy.
Truthy(x) == x # None /\ x[1] # ""

\* Number of identifiers uuid4 can hand out in one run of the model.
MaxIds == 3

UuidPool == <<"id1", "id2", "id3", "id4", "id5", "id6">>

Uuids == {UuidPool[i] : i \in 1..MaxIds}

\* An identifier source that may hand out a value again.
uuid4_reuse(used) == Uuids

\* uuid.uuid4(): the identifiers it may return, none of them returned before.
uuid4(used) == Uuids \ used

\* Path parameters: identifiers that were or may be issued, and one that never is.
PathIds == Uuids \cup {"missing"}

\* Request bodies of class User (age is Optional[int] = None).
UserInputs ==
    { [name |-> "Ann", email |-> "ann@example.com", age |-> None],
      [name |-> "", email |-> "not-an-email", age |-> Some(30)] }

\* Owner references a request may carry: null, the empty string, any
\* identifier, and a string that is nobody's identifier.
UserIdArgs == {None, Some("")} \cup {Some(u) : u \in PathIds}

\* Request bodies of class Task (description, user_id default None,
\* completed defaults False).
TaskInputs ==
    { [title |-> td[1], description |-> td[2], completed |-> td[3], user_id |-> u] :
        td \in {<<"A", None, FALSE>>, <<"B", Some("d"), TRUE>>}, u \in UserIdArgs }

----------------------------------------------------------------------------
(* Python dict: an insertion-ordered sequence of (key, value) entries *)

Keys(db) == {db[i].k : i \in 1..Len(db)}

IndexOf(db, key) == CHOOSE i \in 1..Len(db) : db[i].k = key

\* db[key]
DictGet(db, key) == db[IndexOf(db, key)].v

\* db[key] = val: an existing key keeps its place, a new key goes last.
DictSet(db, key, val) ==
    IF key \in Keys(db)
    THEN [db EXCEPT ![IndexOf(db, key)] = [k |-> key, v |-> val]]
    ELSE Append(db, [k |-> key, v |-> val])

\* del db[key]
DictDel(db, key) == SelectSeq(db, LAMBDA e : e.k # key)

\* list(db.values())
DictValues(db) == [i \in 1..Len(db) |-> db[i].v]

Range(xs) == {xs[i] : i \in 1..Len(xs)}

----------------------------------------------------------------------------
(* Handlers: each returns the response and the store it leaves *)

Resp(status, body, users, tasks) ==
    [status |-> status, body |-> body, users |-> users, tasks |-> tasks]

\* user.dict() / task.dict() with the "id" entry added
WithId(data, id) == [f \in DOMAIN data \cup {"id"} |-> IF f = "id" THEN id ELSE data[f]]

\* create_user refusing an empty name.
create_user_validating(users, tasks, user, user_id) ==
    IF user.name = ""
    THEN Resp(422, "Name cannot be empty", users, tasks)
    ELSE LET user_data == WithId(user, user_id)
         IN  Resp(200, user_data, DictSet(users, user_id, user_data), tasks)

create_user(users, tasks, user, user_id) ==
    LET user_data == WithId(user, user_id)
    IN  Resp(200, user_data, DictSet(users, user_id, user_data), tasks)

get_users(users, tasks) == Resp(200, DictValues(users), users, tasks)

get_user(users, tasks, user_id) ==
    IF user_id \notin Keys(users)
    THEN Resp(404, "User not found", users, tasks)
    ELSE Resp(200, DictGet(users, user_id), users, tasks)

\* update_user writing the record before it tests that the id is stored.
update_user_upsert(users, tasks, user_id, user) ==
    LET user_data == WithId(user, user_id)
        written == DictSet(users, user_id, user_data)
    IN  IF user_id \notin Keys(users)
        THEN Resp(404, "User not found", written, tasks)
        ELSE Resp(200, user_data, written, tasks)

\* update_user merging the payload into the stored record: an omitted age
\* keeps the stored one.
update_user_merge(users, tasks, user_id, user) ==
    IF user_id \notin Keys(users)
    THEN Resp(404, "User not found", users, tasks)
    ELSE LET old == DictGet(users, user_id)
             user_data == [WithId(user, user_id) EXCEPT
                              !.age = IF user.age = None THEN old.age ELSE user.age]
         IN  Resp(200, user_data, DictSet(users, user_id, user_data), tasks)

\* update_user storing the body without the id.
update_user_drop_id(users, tasks, user_id, user) ==
    IF user_id \notin Keys(users)
    THEN Resp(404, "User not found", users, tasks)
    ELSE LET user_data == WithId(user, "")
         IN  Resp(200, user_data, DictSet(users, user_id, user_data), tasks)

update_user(users, tasks, user_id, user) ==
    IF user_id \notin Keys(users)
    THEN Resp(404, "User not found", users, tasks)
    ELSE LET user_data == WithId(user, user_id)
         IN  Resp(200, user_data, DictSet(users, user_id, user_data), tasks)

\* [task_id for task_id, task in tasks_db.items() if task.get("user_id") == user_id]
user_tasks_of(tasks, user_id) ==
    LET owned == SelectSeq(tasks, LAMBDA e : e.v.user_id = Some(user_id))
    IN  [i \in 1..Len(owned) |-> owned[i].k]

\* for task_id in user_tasks: del tasks_db[task_id]
RECURSIVE DelEach(_, _)
DelEach(tasks, ids) ==
    IF ids = <<>> THEN tasks ELSE DelEach(DictDel(tasks, Head(ids)), Tail(ids))

\* delete_user cascading to the first owned task only.
delete_user_first_only(users, tasks, user_id) ==
    IF user_id \notin Keys(users)
    THEN Resp(404, "User not found", users, tasks)
    ELSE LET user_tasks == user_tasks_of(tasks, user_id)
         IN  Resp(200, "User deleted successfully", DictDel(users, user_id),
                  IF user_tasks = <<>> THEN tasks ELSE DictDel(tasks, Head(user_tasks)))

\* delete_user removing every task.
delete_user_all_tasks(users, tasks, user_id) ==
    IF user_id \notin Keys(users)
    THEN Resp(404, "User not found", users, tasks)
    ELSE Resp(200, "User deleted successfully", DictDel(users, user_id), <<>>)

delete_user(users, tasks, user_id) ==
    IF user_id \notin Keys(users)
    THEN Resp(404, "User not found", users, tasks)
    ELSE LET user_tasks == user_tasks_of(tasks, user_id)
         IN  Resp(200, "User deleted successfully",
                  DictDel(users, user_id), DelEach(tasks, user_tasks))

create_task(users, tasks, task, task_id) ==
    IF Truthy(task.user_id) /\ task.user_id[1] \notin Keys(users)
    THEN Resp(400, "User not found", users, tasks)
    ELSE LET task_data == WithId(task, task_id)
         IN  Resp(200, task_data, users, DictSet(tasks, task_id, task_data))

\* get_tasks whose owner filter restarts from the whole collection.
get_tasks_restart(users, tasks, completed, user_id) ==
    LET all == DictValues(tasks)
        byCompleted == IF completed # None
                       THEN SelectSeq(all, LAMBDA t : t.completed = completed[1])
                       ELSE all
        byUser == IF user_id # None
                  THEN SelectSeq(all, LAMBDA t : t.user_id = user_id)
                  ELSE byCompleted
    IN  Resp(200, byUser, users, tasks)

\* get_tasks testing the filters by truthiness ("if completed:", "if user_id:").
get_tasks_truthy(users, tasks, completed, user_id) ==
    LET all == DictValues(tasks)
        byCompleted == IF completed # None /\ completed[1]
                       THEN SelectSeq(all, LAMBDA t : t.completed = completed[1])
                       ELSE all
        byUser == IF Truthy(user_id)
                  THEN SelectSeq(byCompleted, LAMBDA t : t.user_id = user_id)
                  ELSE byCompleted
    IN  Resp(200, byUser, users, tasks)

\* get_tasks listing the tasks of a user newest first.
get_tasks_newest_first(users, tasks, completed, user_id) ==
    LET all == DictValues(tasks)
        byCompleted == IF completed # None
                       THEN SelectSeq(all, LAMBDA t : t.completed = completed[1])
                       ELSE all
        owned == SelectSeq(byCompleted, LAMBDA t : t.user_id = user_id)
        byUser == IF user_id # None
                  THEN [i \in 1..Len(owned) |-> owned[Len(owned) + 1 - i]]
                  ELSE byCompleted
    IN  Resp(200, byUser, users, tasks)

get_tasks(users, tasks, completed, user_id) ==
    LET all == DictValues(tasks)
        byCompleted == IF completed # None
                       THEN SelectSeq(all, LAMBDA t : t.completed = completed[1])
                       ELSE all
        byUser == IF user_id # None
                  THEN SelectSeq(byCompleted, LAMBDA t : t.user_id = user_id)
                  ELSE byCompleted
    IN  Resp(200, byUser, users, tasks)

get_task(users, tasks, task_id) ==
    IF task_id \notin Keys(tasks)
    THEN Resp(404, "Task not found", users, tasks)
    ELSE Resp(200, DictGet(tasks, task_id), users, tasks)

\* update_task keeping a task completed once it is.
update_task_merge(users, tasks, task_id, task) ==
    IF task_id \notin Keys(tasks)
    THEN Resp(404, "Task not found", users, tasks)
    ELSE IF Truthy(task.user_id) /\ task.user_id[1] \notin Keys(users)
    THEN Resp(400, "User not found", users, tasks)
    ELSE LET task_data == [WithId(task, task_id) EXCEPT
                              !.completed = @ \/ DictGet(tasks, task_id).completed]
         IN  Resp(200, task_data, users, DictSet(tasks, task_id, task_data))

update_task(users, tasks, task_id, task) ==
    IF task_id \notin Keys(tasks)
    THEN Resp(404, "Task not found", users, tasks)
    ELSE IF Truthy(task.user_id) /\ task.user_id[1] \notin Keys(users)
    THEN Resp(400, "User not found", users, tasks)
    ELSE LET task_data == WithId(task, task_id)
         IN  Resp(200, task_data, users, DictSet(tasks, task_id, task_data))

\* complete_task flipping the flag instead of setting it.
complete_task_toggle(users, tasks, task_id) ==
    IF task_id \notin Keys(tasks)
    THEN Resp(404, "Task not found", users, tasks)
    ELSE LET old == DictGet(tasks, task_id)
             task_data == [old EXCEPT !.completed = ~old.completed]
         IN  Resp(200, task_data, users, DictSet(tasks, task_id, task_data))

complete_task(users, tasks, task_id) ==
    IF task_id \notin Keys(tasks)
    THEN Resp(404, "Task not found", users, tasks)
    ELSE LET task_data == [DictGet(tasks, task_id) EXCEPT !.completed = TRUE]
         IN  Resp(200, task_data, users, DictSet(tasks, task_id, task_data))

\* delete_task removing the oldest task instead of the one addressed.
delete_task_oldest(users, tasks, task_id) ==
    IF task_id \notin Keys(tasks)
    THEN Resp(404, "Task not found", users, tasks)
    ELSE Resp(200, "Task deleted successfully", users, Tail(tasks))

delete_task(users, tasks, task_id) ==
    IF task_id \notin Keys(tasks)
    THEN Resp(404, "Task not found", users, tasks)
    ELSE Resp(200, "Task deleted successfully", users, DictDel(tasks, task_id))

\* reset_database clearing the users only.
reset_database_users_only(users, tasks) == Resp(200, None, <<>>, tasks)

reset_database(users, tasks) == Resp(200, None, <<>>, <<>>)

\* get_database_stats counting the tasks that are not completed.
get_database_stats_pending(users, tasks) ==
    Resp(200,
         [users_count |-> Len(users), tasks_count |-> Len(tasks),
          completed_tasks |-> Len(SelectSeq(DictValues(tasks), LAMBDA t : ~t.completed))],
         users, tasks)

get_database_stats(users, tasks) ==
    Resp(200,
         [users_count |-> Len(users), tasks_count |-> Len(tasks),
          completed_tasks |-> Len(SelectSeq(DictValues(tasks), LAMBDA t : t.completed))],
         users, tasks)

----------------------------------------------------------------------------
(* The store as a state machine: one request at a time *)

\* What the last request was and how it ended.
\* id is the identifier a create returned or a write was addressed to ("" for a
\* read), user_tasks the cascade list of a delete_user.
Last(op, status, id, user_tasks) ==
    [op |-> op, status |-> status, id |-> id, user_tasks |-> user_tasks]

\* Worker threads of the server's pool (sync handlers run on pool threads).
Threads == {"w1", "w2"}

\* The handler a thread is in: its position, its arguments and its locals.
Frame(op, pc, id, task, user_tasks, removed) ==
    [op |-> op, pc |-> pc, id |-> id, task |-> task,
     user_tasks |-> user_tasks, removed |-> removed]

\* Task(title=""), the request body of a thread that holds none.
NoTask == [title |-> "", description |-> None, completed |-> FALSE, user_id |-> None]

Idle == Frame("idle", "idle", "", NoTask, <<>>, 0)

\* The command-line client or a utility has been given no call; config is
\* None until a configuration is loaded (self._config = None).
NoCall == [op |-> "none", pc |-> "none"]

Init ==
    /\ users_db = <<>>
    /\ tasks_db = <<>>
    /\ issued = {}
    /\ creates = 0
    /\ last = Last("start", 200, "", <<>>)
    /\ inflight = [t \in Threads |-> Idle]
    /\ cli = NoCall
    /\ util = NoCall
    /\ config = None

\* The store and the record of the request after a handler returned r;
\* creates counts the create requests that succeeded.
Apply(r, op, id, user_tasks) ==
    /\ users_db' = r.users
    /\ tasks_db' = r.tasks
    /\ last' = Last(op, r.status, id, user_tasks)
    /\ creates' = IF op \in {"create_user", "create_task"} /\ r.status = 200
                  THEN creates + 1 ELSE creates
    /\ UNCHANGED <<inflight, cli, util, config>>

CreateUser ==
    \E user \in UserInputs, user_id \in uuid4(issued) :
        /\ Apply(create_user(users_db, tasks_db, user, user_id),
                 "create_user", user_id, <<>>)
        /\ issued' = issued \cup {user_id}

GetUsers ==
    /\ Apply(get_users(users_db, tasks_db), "get_users", "", <<>>)
    /\ UNCHANGED issued

GetUser ==
    \E user_id \in PathIds :
        /\ Apply(get_user(users_db, tasks_db, user_id), "get_user", "", <<>>)
        /\ UNCHANGED issued

UpdateUser ==
    \E user_id \in PathIds, user \in UserInputs :
        /\ Apply(update_user(users_db, tasks_db, user_id, user),
                 "update_user", user_id, <<>>)
        /\ UNCHANGED issued

DeleteUser ==
    \E user_id \in PathIds :
        LET r == delete_user(users_db, tasks_db, user_id)
        IN  /\ Apply(r, "delete_user", user_id,
                     IF r.status = 200 THEN user_tasks_of(tasks_db, user_id) ELSE <<>>)
        /\ UNCHANGED issued

\* uuid4 is called only after the owner check has passed: a rejected request
\* consumes no identifier.
CreateTask ==
    \E task \in TaskInputs :
        \/ \E task_id \in uuid4(issued) :
              LET r == create_task(users_db, tasks_db, task, task_id)
              IN  /\ r.status = 200
                  /\ Apply(r, "create_task", task_id, <<>>)
                  /\ issued' = issued \cup {task_id}
        \/ LET r == create_task(users_db, tasks_db, task, "")
           IN  /\ r.status # 200
               /\ Apply(r, "create_task", "", <<>>)
               /\ UNCHANGED issued

GetTasks ==
    \E completed \in {None, Some(TRUE), Some(FALSE)}, user_id \in UserIdArgs :
        /\ Apply(get_tasks(users_db, tasks_db, completed, user_id),
                 "get_tasks", "", <<>>)
        /\ UNCHANGED issued

GetTask ==
    \E task_id \in PathIds :
        /\ Apply(get_task(users_db, tasks_db, task_id), "get_task", "", <<>>)
        /\ UNCHANGED issued

UpdateTask ==
    \E task_id \in PathIds, task \in TaskInputs :
        /\ Apply(update_task(users_db, tasks_db, task_id, task),
                 "update_task", task_id, <<>>)
        /\ UNCHANGED issued

CompleteTask ==
    \E task_id \in PathIds :
        /\ Apply(complete_task(users_db, tasks_db, task_id),
                 "complete_task", task_id, <<>>)
        /\ UNCHANGED issued

DeleteTask ==
    \E task_id \in PathIds :
        /\ Apply(delete_task(users_db, tasks_db, task_id),
                 "delete_task", task_id, <<>>)
        /\ UNCHANGED issued

ResetDatabase ==
    /\ Apply(reset_database(users_db, tasks_db), "reset_database", "", <<>>)
    /\ UNCHANGED issued

GetDatabaseStats ==
    /\ Apply(get_database_stats(users_db, tasks_db), "get_database_stats", "", <<>>)
    /\ UNCHANGED issued

Next ==
    \/ CreateUser \/ GetUsers \/ GetUser \/ UpdateUser \/ DeleteUser
    \/ CreateTask \/ GetTasks \/ GetTask \/ UpdateTask \/ CompleteTask
    \/ DeleteTask \/ ResetDatabase \/ GetDatabaseStats

Spec == Init /\ [][Next]_vars

----------------------------------------------------------------------------
(* The handlers on concurrent pool threads: a thread switch may fall between *)
(* any two accesses of a handler to users_db or tasks_db.                    *)

\* Request bodies and path ids of the concurrent runs.
ConcUser == [name |-> "Ann", email |-> "ann@example.com", age |-> None]

ConcTasks ==
    { [title |-> "A", description |-> None, completed |-> FALSE, user_id |-> u] :
        u \in {None} \cup {Some(id) : id \in Uuids} }

\* Thread t goes to the next position of its handler.
Goto(t, frame) ==
    /\ inflight' = [inflight EXCEPT ![t] = frame]
    /\ UNCHANGED <<last, cli, util, config>>

\* Thread t returns its response.
Respond(t, op, status, id, user_tasks) ==
    /\ inflight' = [inflight EXCEPT ![t] = Idle]
    /\ last' = Last(op, status, id, user_tasks)
    /\ UNCHANGED <<cli, util, config>>

\* create_user: one write, users_db[user_id] = user_data.
C_CreateUser(t) ==
    /\ inflight[t].pc = "idle"
    /\ \E user_id \in uuid4(issued) :
          /\ users_db' = DictSet(users_db, user_id, WithId(ConcUser, user_id))
          /\ issued' = issued \cup {user_id}
          /\ creates' = creates + 1
          /\ Respond(t, "create_user", 200, user_id, <<>>)
    /\ UNCHANGED tasks_db

\* get_user: the membership test, then the read.
GU_Check(t) ==
    /\ inflight[t].pc = "idle"
    /\ \E user_id \in Uuids :
          IF user_id \notin Keys(users_db)
          THEN Respond(t, "get_user", 404, user_id, <<>>)
          ELSE Goto(t, Frame("get_user", "gu_read", user_id, NoTask, <<>>, 0))
    /\ UNCHANGED <<users_db, tasks_db, issued, creates>>

\* users_db[user_id] raises KeyError (a 500) when the user went meanwhile.
GU_Read(t) ==
    /\ inflight[t].pc = "gu_read"
    /\ Respond(t, "get_user",
               IF inflight[t].id \in Keys(users_db) THEN 200 ELSE 500,
               inflight[t].id, <<>>)
    /\ UNCHANGED <<users_db, tasks_db, issued, creates>>

\* get_tasks(user_id=u): list(tasks_db.values()) is one snapshot, filtered
\* afterwards; the response lists the ids it saw.
C_GetTasks(t) ==
    /\ inflight[t].pc = "idle"
    /\ \E user_id \in Uuids :
          LET body == get_tasks(users_db, tasks_db, None, Some(user_id)).body
          IN  Respond(t, "get_tasks", 200, user_id, [i \in 1..Len(body) |-> body[i].id])
    /\ UNCHANGED <<users_db, tasks_db, issued, creates>>

\* delete_user, line 75: the membership test.
DU_Check(t) ==
    /\ inflight[t].pc = "idle"
    /\ \E user_id \in Uuids :
          IF user_id \notin Keys(users_db)
          THEN Respond(t, "delete_user", 404, user_id, <<>>)
          ELSE Goto(t, Frame("delete_user", "du_scan", user_id, NoTask, <<>>, 0))
    /\ UNCHANGED <<users_db, tasks_db, issued, creates>>

\* delete_user, line 79: user_tasks = [...], the scan of tasks_db taken as one
\* step.
DU_Scan(t) ==
    /\ inflight[t].pc = "du_scan"
    /\ Goto(t, [inflight[t] EXCEPT !.pc = "du_loop",
                                   !.user_tasks = user_tasks_of(tasks_db, inflight[t].id)])
    /\ UNCHANGED <<users_db, tasks_db, issued, creates>>

\* The cascade list of frame f from its next entry on.
Remaining(f) == SubSeq(f.user_tasks, f.removed + 1, Len(f.user_tasks))

\* delete_user, line 81: one del tasks_db[task_id] of the loop; KeyError (a
\* 500) when the task went meanwhile.
DU_Del(t) ==
    LET f == inflight[t]
    IN  /\ f.pc = "du_loop"
        /\ Remaining(f) # <<>>
        /\ IF Head(Remaining(f)) \in Keys(tasks_db)
           THEN /\ tasks_db' = DictDel(tasks_db, Head(Remaining(f)))
                /\ Goto(t, [f EXCEPT !.removed = f.removed + 1])
           ELSE /\ UNCHANGED tasks_db
                /\ Respond(t, "delete_user", 500, f.id, f.user_tasks)
        /\ UNCHANGED <<users_db, issued, creates>>

\* delete_user, line 83: del users_db[user_id] after the loop; KeyError (a
\* 500) when the user went meanwhile.
DU_DelUser(t) ==
    LET f == inflight[t]
    IN  /\ f.pc = "du_loop"
        /\ Remaining(f) = <<>>
        /\ IF f.id \in Keys(users_db)
           THEN /\ users_db' = DictDel(users_db, f.id)
                /\ Respond(t, "delete_user", 200, f.id, f.user_tasks)
           ELSE /\ UNCHANGED users_db
                /\ Respond(t, "delete_user", 500, f.id, f.user_tasks)
        /\ UNCHANGED <<tasks_db, issued, creates>>

\* create_task, line 89: the owner check.
CT_Check(t) ==
    /\ inflight[t].pc = "idle"
    /\ \E task \in ConcTasks :
          IF Truthy(task.user_id) /\ task.user_id[1] \notin Keys(users_db)
          THEN Respond(t, "create_task", 400, "", <<>>)
          ELSE Goto(t, Frame("create_task", "ct_insert", "", task, <<>>, 0))
    /\ UNCHANGED <<users_db, tasks_db, issued, creates>>

\* create_task, lines 92-95: uuid4 and the insert.
CT_Insert(t) ==
    /\ inflight[t].pc = "ct_insert"
    /\ \E task_id \in uuid4(issued) :
          /\ tasks_db' = DictSet(tasks_db, task_id, WithId(inflight[t].task, task_id))
          /\ issued' = issued \cup {task_id}
          /\ creates' = creates + 1
          /\ Respond(t, "create_task", 200, task_id, <<>>)
    /\ UNCHANGED users_db

\* update_task, line 118: the membership test.
UT_Check(t) ==
    /\ inflight[t].pc = "idle"
    /\ \E task_id \in Uuids, task \in ConcTasks :
          IF task_id \notin Keys(tasks_db)
          THEN Respond(t, "update_task", 404, task_id, <<>>)
          ELSE Goto(t, Frame("update_task", "ut_owner", task_id, task, <<>>, 0))
    /\ UNCHANGED <<users_db, tasks_db, issued, creates>>

\* update_task, line 121: the owner check.
UT_Owner(t) ==
    LET f == inflight[t]
    IN  /\ f.pc = "ut_owner"
        /\ IF Truthy(f.task.user_id) /\ f.task.user_id[1] \notin Keys(users_db)
           THEN Respond(t, "update_task", 400, f.id, <<>>)
           ELSE Goto(t, [f EXCEPT !.pc = "ut_write"])
        /\ UNCHANGED <<users_db, tasks_db, issued, creates>>

\* update_task, line 126: tasks_db[task_id] = task_data (an insert when the
\* task went meanwhile).
UT_Write(t) ==
    LET f == inflight[t]
    IN  /\ f.pc = "ut_write"
        /\ tasks_db' = DictSet(tasks_db, f.id, WithId(f.task, f.id))
        /\ Respond(t, "update_task", 200, f.id, <<>>)
        /\ UNCHANGED <<users_db, issued, creates>>

\* delete_task, line 139: the membership test.
DT_Check(t) ==
    /\ inflight[t].pc = "idle"
    /\ \E task_id \in Uuids :
          IF task_id \notin Keys(tasks_db)
          THEN Respond(t, "delete_task", 404, task_id, <<>>)
          ELSE Goto(t, Frame("delete_task", "dt_del", task_id, NoTask, <<>>, 0))
    /\ UNCHANGED <<users_db, tasks_db, issued, creates>>

\* delete_task, line 142: del tasks_db[task_id]; KeyError (a 500) when the
\* task went meanwhile.
DT_Del(t) ==
    LET f == inflight[t]
    IN  /\ f.pc = "dt_del"
        /\ IF f.id \in Keys(tasks_db)
           THEN /\ tasks_db' = DictDel(tasks_db, f.id)
                /\ Respond(t, "delete_task", 200, f.id, <<>>)
           ELSE /\ UNCHANGED tasks_db
                /\ Respond(t, "delete_task", 500, f.id, <<>>)
        /\ UNCHANGED <<users_db, issued, creates>>

\* reset_database, line 149: users_db.clear().
RD_Users(t) ==
    /\ inflight[t].pc = "idle"
    /\ users_db' = <<>>
    /\ Goto(t, Frame("reset_database", "rd_tasks", "", NoTask, <<>>, 0))
    /\ UNCHANGED <<tasks_db, issued, creates>>

\* reset_database, line 150: tasks_db.clear().
RD_Tasks(t) ==
    /\ inflight[t].pc = "rd_tasks"
    /\ tasks_db' = <<>>
    /\ Respond(t, "reset_database", 200, "", <<>>)
    /\ UNCHANGED <<users_db, issued, creates>>

\* The request handlers on two threads.
NextConc ==
    \E t \in Threads :
        \/ C_CreateUser(t) \/ GU_Check(t) \/ GU_Read(t) \/ C_GetTasks(t)
        \/ DU_Check(t) \/ DU_Scan(t) \/ DU_Del(t) \/ DU_DelUser(t)
        \/ CT_Check(t) \/ CT_Insert(t)
        \/ UT_Check(t) \/ UT_Owner(t) \/ UT_Write(t)
        \/ DT_Check(t) \/ DT_Del(t)

SpecConc == Init /\ [][NextConc]_vars

\* The request handlers and reset_database on two threads.
NextConcReset ==
    \/ NextConc
    \/ \E t \in Threads : RD_Users(t) \/ RD_Tasks(t)

SpecConcReset == Init /\ [][NextConcReset]_vars

----------------------------------------------------------------------------
(* Properties of the store, one request at a time *)

\* The tasks of a store whose owner reference is u.
OwnedBy(tasks, u) == {e \in Range(tasks) : e.v.user_id = Some(u)}

\* C1: referential integrity. In every reachable state every stored task whose
\* user_id is non-null names a user present in users_db.
C1_ReferentialIntegrity ==
    \A e \in Range(tasks_db) :
        e.v.user_id # None => e.v.user_id[1] \in Keys(users_db)

\* C2: cascade delete. For every existing user u, delete_user(u) succeeds and
\* leaves a store where get_user(u) is NotFound, get_tasks(user_id=u) is empty
\* and get_task(t) is NotFound for every task t that had user_id = u before;
\* the state a delete_user request has just left shows the same.
C2_CascadeDelete ==
    /\ \A u \in Keys(users_db) :
          LET r == delete_user(users_db, tasks_db, u)
          IN  /\ r.status = 200
              /\ get_user(r.users, r.tasks, u).status = 404
              /\ get_tasks(r.users, r.tasks, None, Some(u)).body = <<>>
              /\ \A e \in OwnedBy(tasks_db, u) :
                    get_task(r.users, r.tasks, e.k).status = 404
    /\ (last.op = "delete_user" /\ last.status = 200) =>
          /\ get_user(users_db, tasks_db, last.id).status = 404
          /\ get_tasks(users_db, tasks_db, None, Some(last.id)).body = <<>>
          /\ \A t \in Range(last.user_tasks) :
                get_task(users_db, tasks_db, t).status = 404

\* A delete_user has just removed a user together with two tasks of theirs.
C2_Witness ==
    /\ last.op = "delete_user"
    /\ last.status = 200
    /\ Len(last.user_tasks) >= 2

\* C5: create_task rejects a dangling owner. Whenever user_id is non-null and
\* is not the id of an existing user, create_task answers 400 and leaves both
\* collections as they were.
C5_CreateTaskRejectsDangling ==
    \A task \in TaskInputs, task_id \in uuid4(issued) :
        (task.user_id # None /\ task.user_id[1] \notin Keys(users_db)) =>
            LET r == create_task(users_db, tasks_db, task, task_id)
            IN  r.status = 400 /\ r.tasks = tasks_db /\ r.users = users_db

\* C6: update_task error outcomes. An absent task id answers 404 whatever the
\* owner reference; for an existing task a non-null user_id that names no
\* existing user answers 400 and leaves the stored record unchanged.
C6_UpdateTaskErrors ==
    \A task_id \in PathIds, task \in TaskInputs :
        LET r == update_task(users_db, tasks_db, task_id, task)
        IN  /\ task_id \notin Keys(tasks_db) =>
                  r.status = 404 /\ r.tasks = tasks_db /\ r.users = users_db
            /\ (/\ task_id \in Keys(tasks_db)
                /\ task.user_id # None
                /\ task.user_id[1] \notin Keys(users_db)) =>
                  r.status = 400 /\ r.tasks = tasks_db /\ r.users = users_db

\* C7: identifier uniqueness. Every id a create may be assigned differs from
\* every id live in its collection, the create overwrites no record and grows
\* its collection by exactly one, the ids live in a collection are pairwise
\* distinct, and the ids returned so far are as many as the creates that
\* succeeded (so they are pairwise distinct).
C7_IdentifierUniqueness ==
    /\ \A id \in uuid4(issued) :
          /\ id \notin Keys(users_db) \cup Keys(tasks_db)
          /\ \A user \in UserInputs :
                LET r == create_user(users_db, tasks_db, user, id)
                IN  /\ Len(r.users) = Len(users_db) + 1
                    /\ SubSeq(r.users, 1, Len(users_db)) = users_db
          /\ \A task \in TaskInputs :
                LET r == create_task(users_db, tasks_db, task, id)
                IN  r.status = 200 =>
                        /\ Len(r.tasks) = Len(tasks_db) + 1
                        /\ SubSeq(r.tasks, 1, Len(tasks_db)) = tasks_db
    /\ Cardinality(Keys(users_db)) = Len(users_db)
    /\ Cardinality(Keys(tasks_db)) = Len(tasks_db)
    /\ Cardinality(issued) = creates
    /\ (last.op = "create_user" /\ last.status = 200) => last.id \in Keys(users_db)
    /\ (last.op = "create_task" /\ last.status = 200) => last.id \in Keys(tasks_db)

\* Three creates have returned three identifiers, the last one a task's.
C7_Witness ==
    /\ last.op = "create_task"
    /\ last.status = 200
    /\ Cardinality(issued) = MaxIds
    /\ Len(users_db) >= 1
    /\ Len(tasks_db) >= 2

\* C8: complete_task is an idempotent partial update. For every existing task
\* a second complete_task leaves the store the first one left, and one call
\* changes nothing but that task's completed field, which becomes true
\* whatever it was.
C8_CompleteTaskIdempotent ==
    \A task_id \in Keys(tasks_db) :
        LET r1 == complete_task(users_db, tasks_db, task_id)
            r2 == complete_task(r1.users, r1.tasks, task_id)
        IN  /\ r1.status = 200 /\ r2.status = 200
            /\ r2.tasks = r1.tasks /\ r2.users = r1.users
            /\ r1.users = users_db
            /\ Len(r1.tasks) = Len(tasks_db)
            /\ \A i \in 1..Len(tasks_db) :
                  /\ r1.tasks[i].k = tasks_db[i].k
                  /\ tasks_db[i].k # task_id => r1.tasks[i].v = tasks_db[i].v
                  /\ tasks_db[i].k = task_id =>
                        /\ r1.tasks[i].v.completed = TRUE
                        /\ DOMAIN r1.tasks[i].v = DOMAIN tasks_db[i].v
                        /\ \A f \in DOMAIN tasks_db[i].v \ {"completed"} :
                              r1.tasks[i].v[f] = tasks_db[i].v[f]

\* A complete_task has just succeeded on one task while another task of the
\* store is still not completed.
C8_Witness ==
    /\ last.op = "complete_task"
    /\ last.status = 200
    /\ DictGet(tasks_db, last.id).completed
    /\ \E e \in Range(tasks_db) : ~e.v.completed

\* C9: filter composition. In every store state, for every boolean c and user
\* id u, get_tasks(completed=c, user_id=u) returns exactly the tasks that are
\* in both get_tasks(completed=c) and get_tasks(user_id=u), each once.
C9_FilterComposition ==
    \A c \in BOOLEAN, u \in UserIdArgs \ {None} :
        LET both == get_tasks(users_db, tasks_db, Some(c), u).body
            byC == get_tasks(users_db, tasks_db, Some(c), None).body
            byU == get_tasks(users_db, tasks_db, None, u).body
        IN  /\ Range(both) = Range(byC) \cap Range(byU)
            /\ Len(both) = Cardinality(Range(both))

\* A get_tasks has just been answered from a store where some pair of filters
\* selects a task and each filter alone selects more than the pair does.
C9_Witness ==
    /\ last.op = "get_tasks"
    /\ \E c \in BOOLEAN, u \in UserIdArgs \ {None} :
          LET both == get_tasks(users_db, tasks_db, Some(c), u).body
              byC == get_tasks(users_db, tasks_db, Some(c), None).body
              byU == get_tasks(users_db, tasks_db, None, u).body
          IN  both # <<>> /\ Len(both) < Len(byC) /\ Len(both) < Len(byU)

\* C10: single-filter semantics of get_tasks. With no filter it returns every
\* stored task (the empty sequence on an empty store); with completed=c exactly
\* the tasks whose completed field equals c; with user_id=u exactly the tasks
\* whose user_id equals u, so never a task with null user_id.
C10_SingleFilter ==
    LET stored == {e.v : e \in Range(tasks_db)}
        all == get_tasks(users_db, tasks_db, None, None).body
    IN  /\ Len(all) = Len(tasks_db)
        /\ \A i \in 1..Len(tasks_db) : all[i] = tasks_db[i].v
        /\ tasks_db = <<>> => all = <<>>
        /\ \A c \in BOOLEAN :
              LET byC == get_tasks(users_db, tasks_db, Some(c), None).body
              IN  /\ Range(byC) = {t \in stored : t.completed = c}
                  /\ Len(byC) = Cardinality(Range(byC))
        /\ \A u \in UserIdArgs \ {None} :
              LET byU == get_tasks(users_db, tasks_db, None, u).body
              IN  /\ Range(byU) = {t \in stored : t.user_id = u}
                  /\ Len(byU) = Cardinality(Range(byU))
                  /\ \A t \in Range(byU) : t.user_id # None

\* A get_tasks has just been answered from a store holding a task without
\* owner, a task with an owner, a completed task and a task not completed.
C10_Witness ==
    /\ last.op = "get_tasks"
    /\ \E e \in Range(tasks_db) : e.v.user_id = None
    /\ \E e \in Range(tasks_db) : e.v.user_id # None /\ e.v.user_id[1] \in Keys(users_db)
    /\ \E e \in Range(tasks_db) : e.v.completed
    /\ \E e \in Range(tasks_db) : ~e.v.completed

\* C11: update_user is a full replace that keeps the id. For an existing id it
\* answers 200, the stored and the returned record carry the supplied name,
\* email and age (null when omitted) and the same id, the record keeps its
\* key and place, and no other user and no task changes; for an absent id it
\* answers 404.
C11_UpdateUserFullReplace ==
    \A user_id \in PathIds, user \in UserInputs :
        LET r == update_user(users_db, tasks_db, user_id, user)
        IN  IF user_id \in Keys(users_db)
            THEN /\ r.status = 200
                 /\ r.tasks = tasks_db
                 /\ Len(r.users) = Len(users_db)
                 /\ r.body.id = user_id
                 /\ \A i \in 1..Len(users_db) :
                       /\ r.users[i].k = users_db[i].k
                       /\ users_db[i].k # user_id => r.users[i] = users_db[i]
                       /\ users_db[i].k = user_id =>
                             /\ r.users[i].v = r.body
                             /\ r.users[i].v.id = users_db[i].v.id
                             /\ r.users[i].v.name = user.name
                             /\ r.users[i].v.email = user.email
                             /\ r.users[i].v.age = user.age
            ELSE r.status = 404

\* An update_user has just replaced a user whose age is now null, in a store
\* that holds another user and a task.
C11_Witness ==
    /\ last.op = "update_user"
    /\ last.status = 200
    /\ DictGet(users_db, last.id).age = None
    /\ Len(users_db) >= 2
    /\ Len(tasks_db) >= 1

\* C12: failure leaves no side effect. Every get_user, update_user,
\* delete_user, get_task, complete_task or delete_task that answers 404 leaves
\* users_db and tasks_db as they were, and each answers 404 for an absent id.
C12_NotFoundNoSideEffect ==
    \A id \in PathIds :
        LET rs == << get_user(users_db, tasks_db, id),
                     delete_user(users_db, tasks_db, id),
                     get_task(users_db, tasks_db, id),
                     complete_task(users_db, tasks_db, id),
                     delete_task(users_db, tasks_db, id) >>
        IN  /\ \A i \in 1..Len(rs) :
                  rs[i].status = 404 => rs[i].users = users_db /\ rs[i].tasks = tasks_db
            /\ \A user \in UserInputs :
                  LET r == update_user(users_db, tasks_db, id, user)
                  IN  r.status = 404 => r.users = users_db /\ r.tasks = tasks_db
            /\ id \notin Keys(users_db) => rs[1].status = 404 /\ rs[2].status = 404
            /\ id \notin Keys(tasks_db) =>
                  rs[3].status = 404 /\ rs[4].status = 404 /\ rs[5].status = 404

\* A delete_task has just answered 404 on a store that holds users and tasks.
C12_Witness ==
    /\ last.op = "delete_task"
    /\ last.status = 404
    /\ users_db # <<>>
    /\ tasks_db # <<>>

\* C16: reset_database returns the store to the empty state from any reachable
\* state. After it get_users and get_tasks are empty, every get_user and
\* get_task answers 404 and get_database_stats reports zero three times; the
\* state a reset_database has just left shows the same.
C16_ResetToEmpty ==
    LET r == reset_database(users_db, tasks_db)
        Empty(users, tasks) ==
            /\ get_users(users, tasks).body = <<>>
            /\ get_tasks(users, tasks, None, None).body = <<>>
            /\ \A id \in PathIds :
                  /\ get_user(users, tasks, id).status = 404
                  /\ get_task(users, tasks, id).status = 404
            /\ get_database_stats(users, tasks).body =
                  [users_count |-> 0, tasks_count |-> 0, completed_tasks |-> 0]
    IN  /\ r.status = 200
        /\ Empty(r.users, r.tasks)
        /\ last.op = "reset_database" => Empty(users_db, tasks_db)

\* A reset_database has just run after every identifier of the run was handed
\* out, the store being empty now.
C16_Witness ==
    /\ last.op = "reset_database"
    /\ creates = MaxIds
    /\ users_db = <<>>
    /\ tasks_db = <<>>

\* C18: get_database_stats agrees with the store in every reachable state.
\* users_count is the number of users get_users returns, tasks_count the number
\* of tasks get_tasks() returns, completed_tasks the number
\* get_tasks(completed=true) returns, and completed_tasks <= tasks_count.
C18_StatsAgree ==
    LET stats == get_database_stats(users_db, tasks_db)
    IN  /\ stats.status = 200
        /\ stats.users = users_db /\ stats.tasks = tasks_db
        /\ stats.body.users_count = Len(get_users(users_db, tasks_db).body)
        /\ stats.body.tasks_count = Len(get_tasks(users_db, tasks_db, None, None).body)
        /\ stats.body.completed_tasks =
              Len(get_tasks(users_db, tasks_db, Some(TRUE), None).body)
        /\ stats.body.completed_tasks =
              Cardinality({e \in Range(tasks_db) : e.v.completed})
        /\ stats.body.completed_tasks <= stats.body.tasks_count

\* A get_database_stats has just been answered from a store holding a user, a
\* completed task and a task not completed.
C18_Witness ==
    /\ last.op = "get_database_stats"
    /\ users_db # <<>>
    /\ \E e \in Range(tasks_db) : e.v.completed
    /\ \E e \in Range(tasks_db) : ~e.v.completed

\* C19: create_user never fails on field content. For every request body (an
\* empty name and a syntactically invalid email included, with or without
\* age) it answers 200, stores the fields verbatim under the fresh id after
\* the users already stored, leaves them and all tasks unchanged, and
\* get_user on the returned id returns the same record.
C19_CreateUserNeverFails ==
    \A user \in UserInputs, user_id \in uuid4(issued) :
        LET r == create_user(users_db, tasks_db, user, user_id)
        IN  /\ r.status = 200
            /\ r.tasks = tasks_db
            /\ Len(r.users) = Len(users_db) + 1
            /\ SubSeq(r.users, 1, Len(users_db)) = users_db
            /\ r.users[Len(r.users)].k = user_id
            /\ r.body.id = user_id
            /\ r.body.name = user.name
            /\ r.body.email = user.email
            /\ r.body.age = user.age
            /\ get_user(r.users, r.tasks, r.body.id).status = 200
            /\ get_user(r.users, r.tasks, r.body.id).body = r.body

\* A create_user has just stored a user with an empty name and an invalid
\* email beside another user.
C19_Witness ==
    /\ last.op = "create_user"
    /\ last.status = 200
    /\ last.id \in Keys(users_db)
    /\ DictGet(users_db, last.id).name = ""
    /\ DictGet(users_db, last.id).email = "not-an-email"
    /\ Len(users_db) >= 2

\* C20: delete_task removes exactly one task. For an existing id it answers
\* 200, get_task on that id then answers 404, tasks_db is the previous
\* collection without that record (the others unchanged and in order), and
\* users_db is unchanged.
C20_DeleteTaskExactlyOne ==
    \A task_id \in Keys(tasks_db) :
        LET r == delete_task(users_db, tasks_db, task_id)
            gone == CHOOSE i \in 1..Len(tasks_db) : tasks_db[i].k = task_id
        IN  /\ r.status = 200
            /\ get_task(r.users, r.tasks, task_id).status = 404
            /\ r.users = users_db
            /\ Len(r.tasks) = Len(tasks_db) - 1
            /\ \A i \in 1..Len(r.tasks) :
                  r.tasks[i] = tasks_db[IF i < gone THEN i ELSE i + 1]

\* A delete_task has just removed a task from a store that still holds
\* another task and a user.
C20_Witness ==
    /\ last.op = "delete_task"
    /\ last.status = 200
    /\ last.id \notin Keys(tasks_db)
    /\ tasks_db # <<>>
    /\ users_db # <<>>

\* xs is ys with some elements left out: the elements of xs are found in ys
\* in the order they have in xs.
RECURSIVE IsSubsequence(_, _)
IsSubsequence(xs, ys) ==
    IF xs = <<>> THEN TRUE
    ELSE IF ys = <<>> THEN FALSE
    ELSE IF Head(xs) = Head(ys) THEN IsSubsequence(Tail(xs), Tail(ys))
    ELSE IsSubsequence(xs, Tail(ys))

\* C27: filtering preserves order. In every state and for every combination
\* of filters the list get_tasks returns is a subsequence of the list
\* get_tasks() returns in that state, and the same call on the store the
\* first call left returns the same list.
C27_FilterPreservesOrder ==
    \A c \in {None, Some(TRUE), Some(FALSE)}, u \in UserIdArgs :
        LET first == get_tasks(users_db, tasks_db, c, u)
            again == get_tasks(first.users, first.tasks, c, u)
            whole == get_tasks(users_db, tasks_db, None, None)
        IN  /\ IsSubsequence(first.body, whole.body)
            /\ again.body = first.body

\* A get_tasks has just been answered from a store of three tasks of which a
\* filter selects the first and the last.
C27_Witness ==
    /\ last.op = "get_tasks"
    /\ Len(tasks_db) = 3
    /\ \E c \in BOOLEAN :
          get_tasks(users_db, tasks_db, Some(c), None).body
              = <<tasks_db[1].v, tasks_db[3].v>>

\* C28: every stored user and task carries an id equal to the key it is
\* stored under, and no update_user, update_task or complete_task changes the
\* id of a record: whatever the arguments, every record of the store they
\* leave is under the key and with the id it had.
C28_IdsMatchKeys ==
    /\ \A i \in 1..Len(users_db) : users_db[i].v.id = users_db[i].k
    /\ \A i \in 1..Len(tasks_db) : tasks_db[i].v.id = tasks_db[i].k
    /\ \A id \in PathIds :
        /\ \A user \in UserInputs :
              LET r == update_user(users_db, tasks_db, id, user)
              IN  /\ Keys(r.users) = Keys(users_db)
                  /\ \A i \in 1..Len(r.users) :
                        /\ r.users[i].k = users_db[i].k
                        /\ r.users[i].v.id = users_db[i].v.id
        /\ \A task \in TaskInputs :
              LET r == update_task(users_db, tasks_db, id, task)
              IN  /\ Keys(r.tasks) = Keys(tasks_db)
                  /\ \A i \in 1..Len(r.tasks) :
                        /\ r.tasks[i].k = tasks_db[i].k
                        /\ r.tasks[i].v.id = tasks_db[i].v.id
        /\ LET r == complete_task(users_db, tasks_db, id)
           IN  /\ Keys(r.tasks) = Keys(tasks_db)
               /\ \A i \in 1..Len(r.tasks) :
                     /\ r.tasks[i].k = tasks_db[i].k
                     /\ r.tasks[i].v.id = tasks_db[i].v.id

\* An update_user has just replaced a user, whose record has the id it was
\* addressed by, in a store that also holds a task.
C28_Witness ==
    /\ last.op = "update_user"
    /\ last.status = 200
    /\ last.id \in Keys(users_db)
    /\ DictGet(users_db, last.id).id = last.id
    /\ tasks_db # <<>>

\* C29: a successful delete_user(u) removes nothing else. The users left are
\* the users before without u, unchanged and in order; the tasks left are the
\* tasks before without those whose user_id is u, unchanged and in order.
C29_DeleteUserFrame ==
    \A u \in Keys(users_db) :
        LET r == delete_user(users_db, tasks_db, u)
        IN  /\ r.status = 200
            /\ r.users = SelectSeq(users_db, LAMBDA e : e.k # u)
            /\ r.tasks = SelectSeq(tasks_db, LAMBDA e : e.v.user_id # Some(u))

\* A delete_user has just removed a user and a task of the user's and left a
\* task of nobody.
C29_Witness ==
    /\ last.op = "delete_user"
    /\ last.status = 200
    /\ last.user_tasks # <<>>
    /\ last.id \notin Keys(users_db)
    /\ \E e \in Range(tasks_db) : e.v.user_id = None

\* C30: update_task is a full replace. On success the stored task has exactly
\* the supplied title, description, completed and user_id and the id it had,
\* a body that leaves the optional fields out giving description null,
\* completed false and user_id null, also for a task that was completed and
\* had an owner; nothing else in the store changes.
C30_UpdateTaskFullReplace ==
    \A id \in Keys(tasks_db), task \in TaskInputs :
        LET r == update_task(users_db, tasks_db, id, task)
        IN  r.status = 200 =>
                /\ DictGet(r.tasks, id) = WithId(task, id)
                /\ r.body = WithId(task, id)
                /\ Keys(r.tasks) = Keys(tasks_db)
                /\ \A k \in Keys(tasks_db) \ {id} :
                       DictGet(r.tasks, k) = DictGet(tasks_db, k)
                /\ r.users = users_db

\* An update_task with the optional fields left out has just succeeded on a
\* store with a user: the task is not completed and has no owner.
C30_Witness ==
    /\ last.op = "update_task"
    /\ last.status = 200
    /\ users_db # <<>>
    /\ last.id \in Keys(tasks_db)
    /\ DictGet(tasks_db, last.id).description = None
    /\ ~DictGet(tasks_db, last.id).completed
    /\ DictGet(tasks_db, last.id).user_id = None

----------------------------------------------------------------------------
(* The command-line client of src/src/cli.py: TaskManager over APIClient,   *)
(* whose requests are answered by the handlers above. A str is a sequence   *)
(* of one-character strings.                                                *)

\* Characters str.strip() removes.
Whitespace == {" ", "\t", "\n"}

Lower == {"a", "b", "c", "d", "e", "f", "g", "h", "i", "j", "k", "l", "m",
          "n", "o", "p", "q", "r", "s", "t", "u", "v", "w", "x", "y", "z"}

Upper == {"A", "B", "C", "D", "E", "F", "G", "H", "I", "J", "K", "L", "M",
          "N", "O", "P", "Q", "R", "S", "T", "U", "V", "W", "X", "Y", "Z"}

Digits == {"0", "1", "2", "3", "4", "5", "6", "7", "8", "9"}

\* [a-zA-Z]
Alpha == Lower \cup Upper

\* [a-zA-Z0-9._%+-]
LocalChars == Alpha \cup Digits \cup {".", "_", "%", "+", "-"}

\* [a-zA-Z0-9.-]
DomainChars == Alpha \cup Digits \cup {".", "-"}

RECURSIVE lstrip(_)
lstrip(s) == IF s # <<>> /\ Head(s) \in Whitespace THEN lstrip(Tail(s)) ELSE s

RECURSIVE rstrip(_)
rstrip(s) ==
    IF s # <<>> /\ s[Len(s)] \in Whitespace
    THEN rstrip(SubSeq(s, 1, Len(s) - 1))
    ELSE s

\* str.strip()
strip(s) == rstrip(lstrip(s))

\* Positions at which $ matches: the end of the string, and just before a
\* newline that is its last character.
EndPositions(s) ==
    {Len(s)} \cup (IF s # <<>> /\ s[Len(s)] = "\n" THEN {Len(s) - 1} ELSE {})

\* re.match of ^[a-zA-Z0-9._%+-]+@[a-zA-Z0-9.-]+\.[a-zA-Z]{2,}$ : at is the
\* position of the @, dot that of the \. and end where $ matches.
validate_email(email) ==
    \E end \in EndPositions(email) :
        \E at \in 2..end : \E dot \in (at + 2)..(end - 2) :
            /\ \A k \in 1..(at - 1) : email[k] \in LocalChars
            /\ email[at] = "@"
            /\ \A k \in (at + 1)..(dot - 1) : email[k] \in DomainChars
            /\ email[dot] = "."
            /\ \A k \in (dot + 1)..end : email[k] \in Alpha

\* validate_age with 0 excluded.
validate_age_exclusive(age) == 0 < age /\ age <= 150

validate_age(age) == 0 <= age /\ age <= 150

\* What a TaskManager method left: the exception it raised ("" for none), the
\* api.create_user calls it made, its return value and the store.
Outcome(raised, calls, result, users, tasks) ==
    [raised |-> raised, calls |-> calls, result |-> result,
     users |-> users, tasks |-> tasks]

\* user_id is the identifier the server's uuid4 returns if POST /users is sent.
create_user_with_validation(users, tasks, name, email, age, user_id) ==
    IF strip(name) = <<>>
    THEN Outcome("ValueError", <<>>, "Name cannot be empty", users, tasks)
    ELSE IF ~validate_email(email)
    THEN Outcome("ValueError", <<>>, "Invalid email format", users, tasks)
    ELSE IF age # None /\ ~validate_age(age[1])
    THEN Outcome("ValueError", <<>>, "Age must be between 0 and 150", users, tasks)
    ELSE LET call == [name |-> strip(name), email |-> email, age |-> age]
             r == create_user(users, tasks, call, user_id)
         IN  Outcome("", <<call>>, r.body, r.users, r.tasks)

RECURSIVE GCD(_, _)
GCD(a, b) == IF b = 0 THEN a ELSE GCD(b, a % b)

\* The quotient n / d of two lengths, as the fraction in lowest terms.
Ratio(n, d) == <<n \div GCD(n, d), d \div GCD(n, d)>>

\* The number 0 (0 and 0.0 are equal in Python).
Zero == <<0, 1>>

\* get_user_task_summary counting every listed task as pending.
get_user_task_summary_pending_all(users, tasks, user_id) ==
    LET user == get_user(users, tasks, user_id)
        listed == get_tasks(users, tasks, None, Some(user_id)).body
        completed_tasks == SelectSeq(listed, LAMBDA t : t.completed)
    IN  IF user.status # 200
        THEN Outcome("HTTPError", <<>>, None, users, tasks)
        ELSE Outcome("", <<>>,
                     [user |-> user.body,
                      total_tasks |-> Len(listed),
                      completed_tasks |-> Len(completed_tasks),
                      pending_tasks |-> Len(listed),
                      completion_rate |->
                          IF listed # <<>>
                          THEN Ratio(Len(completed_tasks), Len(listed))
                          ELSE Zero],
                     users, tasks)

\* get_user_task_summary dividing without the test for an empty list.
get_user_task_summary_unguarded(users, tasks, user_id) ==
    LET user == get_user(users, tasks, user_id)
        listed == get_tasks(users, tasks, None, Some(user_id)).body
        completed_tasks == SelectSeq(listed, LAMBDA t : t.completed)
        pending_tasks == SelectSeq(listed, LAMBDA t : ~t.completed)
    IN  IF user.status # 200
        THEN Outcome("HTTPError", <<>>, None, users, tasks)
        ELSE IF listed = <<>>
        THEN Outcome("ZeroDivisionError", <<>>, None, users, tasks)
        ELSE Outcome("", <<>>,
                     [user |-> user.body,
                      total_tasks |-> Len(listed),
                      completed_tasks |-> Len(completed_tasks),
                      pending_tasks |-> Len(pending_tasks),
                      completion_rate |-> Ratio(Len(completed_tasks), Len(listed))],
                     users, tasks)

\* api.get_user raises HTTPError for a 404 (raise_for_status); api.get_tasks
\* sends user_id as the only filter.
get_user_task_summary(users, tasks, user_id) ==
    LET user == get_user(users, tasks, user_id)
        listed == get_tasks(users, tasks, None, Some(user_id)).body
        completed_tasks == SelectSeq(listed, LAMBDA t : t.completed)
        pending_tasks == SelectSeq(listed, LAMBDA t : ~t.completed)
    IN  IF user.status # 200
        THEN Outcome("HTTPError", <<>>, None, users, tasks)
        ELSE Outcome("", <<>>,
                     [user |-> user.body,
                      total_tasks |-> Len(listed),
                      completed_tasks |-> Len(completed_tasks),
                      pending_tasks |-> Len(pending_tasks),
                      completion_rate |->
                          IF listed # <<>>
                          THEN Ratio(Len(completed_tasks), Len(listed))
                          ELSE Zero],
                     users, tasks)

(* The calls the client is checked on *)

\* Longest task list a summary is asked over.
MaxListed == 4

\* Longest email address enumerated over EmailChars.
MaxEmailLen == 6

SeqsUpTo(S, n) == UNION {[1..k -> S] : k \in 0..n}

Names == {<<>>, <<" ">>, <<" ", "\t">>, <<"A">>, <<" ", "A", " ">>,
          <<"A", " ", "B", "\n">>}

EmailChars == {"a", "@", "."}

Emails ==
    SeqsUpTo(EmailChars, MaxEmailLen)
        \cup {<<"a", "@", "a", ".", "a", "a", "\n">>,
              <<"a", " ", "@", "a", ".", "a", "a">>,
              <<"a", "@", "a", ".", "a", "1">>,
              <<"A", "_", "1", "@", "b", "-", "2", ".", "C", "d">>}

Ages == {None, Some(-1), Some(0), Some(30), Some(150), Some(151)}

\* The one user of the stores a summary is asked over.
SummaryUser == "id1"

SummaryUserIds == {SummaryUser, "missing"}

\* Stores with the user and up to MaxListed tasks, each completed or not and
\* either the user's or nobody's.
SummaryTasks ==
    { [i \in 1..Len(f) |->
          [k |-> UuidPool[i + 1],
           v |-> [title |-> "A", description |-> None, completed |-> f[i][1],
                  user_id |-> f[i][2], id |-> UuidPool[i + 1]]]] :
        f \in SeqsUpTo(BOOLEAN \X {None, Some(SummaryUser)}, MaxListed) }

InitCli ==
    /\ last = Last("start", 200, "", <<>>)
    /\ util = NoCall
    /\ config = None
    /\ inflight = [t \in Threads |-> Idle]
    /\ \/ \E tasks \in SummaryTasks, user_id \in SummaryUserIds :
            /\ users_db = <<[k |-> SummaryUser, v |-> WithId(ConcUser, SummaryUser)]>>
            /\ tasks_db = tasks
            /\ issued = {SummaryUser} \cup Keys(tasks)
            /\ creates = 1 + Len(tasks)
            /\ cli = [op |-> "get_user_task_summary", pc |-> "call",
                      user_id |-> user_id]
       \/ \E name \in Names, email \in Emails, age \in Ages :
            /\ users_db = <<>>
            /\ tasks_db = <<>>
            /\ issued = {}
            /\ creates = 0
            /\ cli = [op |-> "create_user_with_validation", pc |-> "call",
                      name |-> name, email |-> email, age |-> age]

\* The client's call returned or raised.
Done(call, o) ==
    [f \in DOMAIN call \cup {"raised", "calls", "result"} |->
        IF f = "pc" THEN "done"
        ELSE IF f = "raised" THEN o.raised
        ELSE IF f = "calls" THEN o.calls
        ELSE IF f = "result" THEN o.result
        ELSE call[f]]

CreateUserWithValidation ==
    /\ cli.op = "create_user_with_validation"
    /\ cli.pc = "call"
    /\ \E user_id \in uuid4(issued) :
        LET o == create_user_with_validation(users_db, tasks_db, cli.name,
                                             cli.email, cli.age, user_id)
        IN  /\ cli' = Done(cli, o)
            /\ users_db' = o.users
            /\ tasks_db' = o.tasks
            /\ issued' = IF o.calls # <<>> THEN issued \cup {user_id} ELSE issued
            /\ creates' = creates + Len(o.calls)
            /\ last' = IF o.calls # <<>>
                       THEN Last("create_user", 200, user_id, <<>>)
                       ELSE last
    /\ UNCHANGED <<inflight, util, config>>

GetUserTaskSummary ==
    /\ cli.op = "get_user_task_summary"
    /\ cli.pc = "call"
    /\ LET o == get_user_task_summary(users_db, tasks_db, cli.user_id)
       IN  /\ cli' = Done(cli, o)
           /\ users_db' = o.users
           /\ tasks_db' = o.tasks
           /\ last' = Last("get_tasks", 200, "", <<>>)
    /\ UNCHANGED <<issued, creates, inflight, util, config>>

NextCli ==
    \/ CreateUserWithValidation
    \/ GetUserTaskSummary

SpecCli == InitCli /\ [][NextCli]_vars

----------------------------------------------------------------------------
(* Properties of the command-line client *)

\* The list api.get_tasks(user_id=user_id) returns for the summary in cli
\* (get_user_task_summary leaves the store as it found it).
Listed == get_tasks(users_db, tasks_db, None, Some(cli.user_id)).body

\* C13: in the summary get_user_task_summary returns, total_tasks is the
\* number of tasks in the list api.get_tasks returned for that user,
\* completed_tasks the number of them that are completed, pending_tasks is
\* total_tasks minus completed_tasks, and completed_tasks plus pending_tasks
\* is total_tasks.
C13_SummaryCounts ==
    (cli.op = "get_user_task_summary" /\ cli.pc = "done" /\ cli.raised = "") =>
        LET s == cli.result
        IN  /\ s.total_tasks = Len(Listed)
            /\ s.completed_tasks =
                   Cardinality({i \in 1..Len(Listed) : Listed[i].completed})
            /\ s.pending_tasks = s.total_tasks - s.completed_tasks
            /\ s.completed_tasks + s.pending_tasks = s.total_tasks

\* A summary over four tasks of the user, two of them completed, returned
\* 4, 2, 2 and the rate 1/2.
C13_Witness ==
    /\ cli.op = "get_user_task_summary"
    /\ cli.pc = "done"
    /\ cli.raised = ""
    /\ Len(Listed) = 4
    /\ cli.result.total_tasks = 4
    /\ cli.result.completed_tasks = 2
    /\ cli.result.pending_tasks = 2
    /\ cli.result.completion_rate = <<1, 2>>

\* C14: the summary of a user whose task list is empty is returned without an
\* error and has total_tasks 0 and completion_rate exactly 0; over a list that
\* is not empty completion_rate is 0 exactly when no task of it is completed.
C14_SummaryEmptyList ==
    (cli.op = "get_user_task_summary" /\ cli.pc = "done") =>
        /\ (cli.user_id \in Keys(users_db) /\ Listed = <<>>) =>
               /\ cli.raised = ""
               /\ cli.result.total_tasks = 0
               /\ cli.result.completion_rate = Zero
        /\ (cli.raised = "" /\ Listed # <<>>) =>
               (cli.result.completion_rate = Zero
                    <=> \A i \in 1..Len(Listed) : ~Listed[i].completed)

\* A summary returned for a user who has no task, in a store that holds
\* tasks of nobody.
C14_Witness ==
    /\ cli.op = "get_user_task_summary"
    /\ cli.pc = "done"
    /\ cli.user_id \in Keys(users_db)
    /\ Listed = <<>>
    /\ tasks_db # <<>>
    /\ cli.raised = ""
    /\ cli.result.total_tasks = 0
    /\ cli.result.completion_rate = Zero

\* call is name with the whitespace at its two ends removed.
IsStripped(call, name) ==
    /\ call # <<>>
    /\ call[1] \notin Whitespace
    /\ call[Len(call)] \notin Whitespace
    /\ \E i \in 1..Len(name) :
        /\ i + Len(call) - 1 <= Len(name)
        /\ SubSeq(name, i, i + Len(call) - 1) = call
        /\ \A k \in 1..Len(name) :
               (k < i \/ k >= i + Len(call)) => name[k] \in Whitespace

\* C15: create_user_with_validation raises ValueError and makes no
\* api.create_user call when the name is empty or only whitespace, the email
\* fails validate_email, or a given age is below 0 or above 150 (0 and 150
\* are accepted); otherwise it makes exactly one api.create_user call, with
\* the name stripped and the email and age as given.
C15_ValidationBeforeCreate ==
    (cli.op = "create_user_with_validation" /\ cli.pc = "done") =>
        LET blank == \A i \in 1..Len(cli.name) : cli.name[i] \in Whitespace
            badAge == cli.age # None /\ (cli.age[1] < 0 \/ cli.age[1] > 150)
        IN  IF blank \/ ~validate_email(cli.email) \/ badAge
            THEN /\ cli.raised = "ValueError"
                 /\ cli.calls = <<>>
                 /\ users_db = <<>>
            ELSE /\ cli.raised = ""
                 /\ Len(cli.calls) = 1
                 /\ IsStripped(cli.calls[1].name, cli.name)
                 /\ cli.calls[1].email = cli.email
                 /\ cli.calls[1].age = cli.age
                 /\ Len(users_db) = 1
                 /\ users_db[1].v.name = cli.calls[1].name

\* A name given with whitespace around it and the age 0 were accepted: one
\* call was made, with the shorter name.
C15_Witness ==
    /\ cli.op = "create_user_with_validation"
    /\ cli.pc = "done"
    /\ cli.raised = ""
    /\ cli.age = Some(0)
    /\ Len(cli.calls) = 1
    /\ Len(cli.calls[1].name) < Len(cli.name)
    /\ Len(users_db) = 1

----------------------------------------------------------------------------
(* The utilities of src/src/utils.py. A str is a sequence of one-character  *)
(* strings; a float that is a quotient of two integers is the fraction in   *)
(* lowest terms (rounding of the quotient is not modelled).                 *)

ascii_lowercase ==
    <<"a", "b", "c", "d", "e", "f", "g", "h", "i", "j", "k", "l", "m",
      "n", "o", "p", "q", "r", "s", "t", "u", "v", "w", "x", "y", "z">>

ascii_uppercase ==
    <<"A", "B", "C", "D", "E", "F", "G", "H", "I", "J", "K", "L", "M",
      "N", "O", "P", "Q", "R", "S", "T", "U", "V", "W", "X", "Y", "Z">>

\* str.lower()
lower(s) ==
    [i \in 1..Len(s) |->
        IF s[i] \in Upper
        THEN ascii_lowercase[CHOOSE j \in 1..Len(ascii_uppercase) :
                                 ascii_uppercase[j] = s[i]]
        ELSE s[i]]

\* What a utility left: the exception it raised ("" for none) and its value.
Ret(raised, result) == [raised |-> raised, result |-> result]

\* EmailValidator.validate: EMAIL_PATTERN.match(email) for a str (every
\* address of the model is a str, so the isinstance test passes).
validate(email) ==
    \E end \in EndPositions(email) :
        \E at \in 2..end : \E dot \in (at + 2)..(end - 2) :
            /\ \A k \in 1..(at - 1) : email[k] \in LocalChars
            /\ email[at] = "@"
            /\ \A k \in (at + 1)..(dot - 1) : email[k] \in DomainChars
            /\ email[dot] = "."
            /\ \A k \in (dot + 1)..end : email[k] \in Alpha

validate_strict(email) ==
    IF ~validate(email)
    THEN Ret("ValidationError", None)
    ELSE Ret("", strip(lower(email)))

calculate_percentage(part, total) ==
    IF total = 0
    THEN Ret("", Zero)
    ELSE IF part < 0 \/ total < 0
    THEN Ret("ValueError", None)
    ELSE Ret("", Ratio(part * 100, total))

\* s[:n] for n >= 0
Slice(s, n) == SubSeq(s, 1, IF n < Len(s) THEN n ELSE Len(s))

\* truncate keeping max_length characters of the text before the suffix.
truncate_then_suffix(text, max_length, suffix) ==
    IF max_length < 0
    THEN Ret("ValueError", None)
    ELSE IF Len(text) <= max_length
    THEN Ret("", text)
    ELSE Ret("", Slice(text, max_length) \o suffix)

truncate(text, max_length, suffix) ==
    IF max_length < 0
    THEN Ret("ValueError", None)
    ELSE IF Len(text) <= max_length
    THEN Ret("", text)
    ELSE LET truncated_length == max_length - Len(suffix)
         IN  IF truncated_length < 0
             THEN Ret("", Slice(suffix, max_length))
             ELSE Ret("", Slice(text, truncated_length) \o suffix)

\* An item is a dict, a function from its keys; groups is a dict of lists.
\* The loop of group_by_key from item i on.
RECURSIVE group_loop(_, _, _, _)
group_loop(items, key, i, groups) ==
    IF i > Len(items)
    THEN Ret("", groups)
    ELSE IF key \notin DOMAIN items[i]
    THEN Ret("KeyError", None)
    ELSE LET group_key == items[i][key]
             found == IF group_key \notin Keys(groups)
                      THEN DictSet(groups, group_key, <<>>)
                      ELSE groups
         IN  group_loop(items, key, i + 1,
                        DictSet(found, group_key,
                                Append(DictGet(found, group_key), items[i])))

\* group_by_key reading the items last to first.
group_by_key_reversed(items, key) ==
    group_loop([i \in 1..Len(items) |-> items[Len(items) + 1 - i]], key, 1, <<>>)

group_by_key(items, key) == group_loop(items, key, 1, <<>>)

(* ConfigManager: the configuration is a tree of dicts. The tree is the     *)
(* function from the path of every key in it (the keys from the root down)  *)
(* to the node stored there: a dict, or a str or int value.                 *)

Node(kind, val) == [kind |-> kind, val |-> val]

\* {} as a value; the keys under it are the longer paths of the tree.
NodeDict == Node("dict", "")

\* default=None
NodeNone == Node("none", "")

\* key.split('.') from position i on, piece being the characters read since
\* the last separator.
RECURSIVE split_from(_, _, _)
split_from(key, i, piece) ==
    IF i > Len(key)
    THEN <<piece>>
    ELSE IF key[i] = "."
    THEN <<piece>> \o split_from(key, i + 1, <<>>)
    ELSE split_from(key, i + 1, Append(piece, key[i]))

split(key) == split_from(key, 1, <<>>)

IsPrefix(p, q) == Len(p) <= Len(q) /\ SubSeq(q, 1, Len(p)) = p

\* isinstance(value, dict) for the value at path p (the root is a dict).
IsDict(tree, p) == p = <<>> \/ tree[p].kind = "dict"

\* The value at path p: its node and, for a dict, everything under it.
ValueAt(tree, p) ==
    [node |-> tree[p],
     under |-> [q \in {SubSeq(x, Len(p) + 1, Len(x)) :
                        x \in {y \in DOMAIN tree : IsPrefix(p, y) /\ y # p}}
                  |-> tree[p \o q]]]

\* The default None, as a value.
NoValue == [node |-> NodeNone, under |-> [q \in {} |-> NodeNone]]

\* The loop of get from keys[i] on, value being at path p.
RECURSIVE get_loop(_, _, _, _)
get_loop(tree, keys, i, p) ==
    IF i > Len(keys)
    THEN ValueAt(tree, p)
    ELSE IF IsDict(tree, p) /\ Append(p, keys[i]) \in DOMAIN tree
    THEN get_loop(tree, keys, i + 1, Append(p, keys[i]))
    ELSE NoValue

\* get(key) with the default None, on a loaded configuration.
get(tree, key) == get_loop(tree, split(key), 1, <<>>)

\* config[k] = node: what was stored under k goes with the old value.
SetItem(tree, q, node) ==
    [x \in {y \in DOMAIN tree : ~IsPrefix(q, y)} \cup {q} |->
        IF x = q THEN node ELSE tree[x]]

\* The loop of set over keys[:-1] from keys[i] on, config being at path p.
\* `k not in config` and `config[k] = {}` raise TypeError when config is an
\* int, and one of `config[k] = {}` and `config[k]` does when it is a str.
RECURSIVE set_loop(_, _, _, _)
set_loop(tree, keys, i, p) ==
    IF i > Len(keys) - 1
    THEN [raised |-> "", tree |-> tree, p |-> p]
    ELSE IF ~IsDict(tree, p)
    THEN [raised |-> "TypeError", tree |-> tree, p |-> p]
    ELSE LET q == Append(p, keys[i])
         IN  set_loop(IF q \notin DOMAIN tree THEN SetItem(tree, q, NodeDict) ELSE tree,
                      keys, i + 1, q)

\* set(key, value) on a loaded configuration; save_config returns True.
set(tree, key, value) ==
    LET keys == split(key)
        at == set_loop(tree, keys, 1, <<>>)
    IN  IF at.raised # "" \/ ~IsDict(at.tree, at.p)
        THEN [raised |-> "TypeError", result |-> None, tree |-> at.tree]
        ELSE [raised |-> "", result |-> TRUE,
              tree |-> SetItem(at.tree, Append(at.p, keys[Len(keys)]), value)]

(* The calls the utilities are checked on *)

\* Largest absolute value of part and total.
MaxAmount == 6

\* Longest text given to truncate.
MaxTextLen == 4

\* Longest list given to group_by_key.
MaxItems == 3

\* Longest configuration key enumerated over KeyChars.
MaxKeyLen == 3

Pads == {<<>>, <<" ">>, <<" ", " ">>}

\* Addresses with and without spaces around them, among them an address in
\* capitals.
StrictEmails ==
    {l \o e \o r : l \in Pads, r \in Pads,
                   e \in Emails \cup {<<"T", "@", "e", ".", "C", "O">>}}

Amounts == (0 - MaxAmount)..MaxAmount

Texts == SeqsUpTo({"a", "b"}, MaxTextLen)

Suffixes == {<<>>, <<"~">>, <<".", ".", ".">>}

Lengths == (0 - 1)..(MaxTextLen + 1)

Items ==
    {[n |-> i] : i \in 1..2} \cup {[n |-> i, k |-> v] : i \in 1..2, v \in {"x", "y"}}

ItemKeys == {"k", "n"}

KeyChars == {"a", "b", "."}

ConfigKeys ==
    SeqsUpTo(KeyChars, MaxKeyLen)
        \cup {<<"a", ".", "b", ".", "a">>, <<"a", ".", "a", ".", "b">>,
              <<"b", ".", "b", ".", "b">>}

ConfigValues == {Node("str", "v"), Node("int", "7")}

\* Keys of the configurations a file holds.
TreePaths ==
    {<<s>> : s \in {<<"a">>, <<"b">>}}
        \cup {<<s, t>> : s \in {<<"a">>, <<"b">>}, t \in {<<"a">>, <<"b">>}}

\* The configurations load_config can return: every tree over TreePaths in
\* which the keys under a key are those of a dict.
Trees ==
    {t \in UNION {[D -> {NodeDict, Node("str", "x"), Node("int", "1")}] :
                    D \in SUBSET TreePaths} :
        \A p \in DOMAIN t :
            Len(p) > 1 => /\ SubSeq(p, 1, Len(p) - 1) \in DOMAIN t
                          /\ t[SubSeq(p, 1, Len(p) - 1)].kind = "dict"}

InitUtils ==
    /\ users_db = <<>>
    /\ tasks_db = <<>>
    /\ issued = {}
    /\ creates = 0
    /\ last = Last("start", 200, "", <<>>)
    /\ inflight = [t \in Threads |-> Idle]
    /\ cli = NoCall
    /\ config = None
    /\ \/ \E e \in StrictEmails :
            util = [op |-> "validate_strict", pc |-> "call", email |-> e]
       \/ \E p \in Amounts, t \in Amounts :
            util = [op |-> "calculate_percentage", pc |-> "call",
                    part |-> p, total |-> t]
       \/ \E x \in Texts, m \in Lengths, s \in Suffixes :
            util = [op |-> "truncate", pc |-> "call", text |-> x,
                    max_length |-> m, suffix |-> s]
       \/ \E xs \in SeqsUpTo(Items, MaxItems), k \in ItemKeys :
            util = [op |-> "group_by_key", pc |-> "call", items |-> xs, key |-> k]
       \/ \E k \in ConfigKeys, v \in ConfigValues :
            util = [op |-> "set", pc |-> "call", key |-> k, value |-> v]

\* The utility returned or raised.
Returned(call, o) ==
    [f \in DOMAIN call \cup {"raised", "result"} |->
        IF f = "pc" THEN "done"
        ELSE IF f = "raised" THEN o.raised
        ELSE IF f = "result" THEN o.result
        ELSE call[f]]

store == <<users_db, tasks_db, issued, creates, last, inflight, cli>>

ValidateStrict ==
    /\ util.op = "validate_strict"
    /\ util.pc = "call"
    /\ util' = Returned(util, validate_strict(util.email))
    /\ UNCHANGED <<store, config>>

CalculatePercentage ==
    /\ util.op = "calculate_percentage"
    /\ util.pc = "call"
    /\ util' = Returned(util, calculate_percentage(util.part, util.total))
    /\ UNCHANGED <<store, config>>

Truncate ==
    /\ util.op = "truncate"
    /\ util.pc = "call"
    /\ util' = Returned(util, truncate(util.text, util.max_length, util.suffix))
    /\ UNCHANGED <<store, config>>

GroupByKey ==
    /\ util.op = "group_by_key"
    /\ util.pc = "call"
    /\ util' = Returned(util, group_by_key(util.items, util.key))
    /\ UNCHANGED <<store, config>>

\* set: self._config is None, so load_config reads the file (any tree of
\* Trees) first; before is the configuration it loaded.
ConfigSet ==
    /\ util.op = "set"
    /\ util.pc = "call"
    /\ config = None
    /\ \E loaded \in Trees :
        LET o == set(loaded, util.key, util.value)
        IN  /\ config' = Some(o.tree)
            /\ util' = [op |-> "set", pc |-> "set", key |-> util.key,
                        value |-> util.value, before |-> loaded,
                        raised |-> o.raised, result |-> o.result]
    /\ UNCHANGED store

\* The get(key) that follows a set(key, value) that returned.
ConfigGet ==
    /\ util.op = "set"
    /\ util.pc = "set"
    /\ util.raised = ""
    /\ config # None
    /\ util' = [op |-> "get", pc |-> "done", key |-> util.key,
                value |-> util.value, before |-> util.before,
                raised |-> "", result |-> get(config[1], util.key)]
    /\ UNCHANGED <<store, config>>

NextUtils ==
    \/ ValidateStrict
    \/ CalculatePercentage
    \/ Truncate
    \/ GroupByKey
    \/ ConfigSet
    \/ ConfigGet

SpecUtils == InitUtils /\ [][NextUtils]_vars

----------------------------------------------------------------------------
(* Properties of the utilities *)

\* C21: validate_strict removes surrounding whitespace. Given an address that
\* is valid once the whitespace around it is removed, it does not raise and
\* returns that address in lower case, without the whitespace.
C21_ValidateStrictStrips ==
    (util.op = "validate_strict" /\ util.pc = "done"
        /\ validate(strip(util.email))) =>
            /\ util.raised = ""
            /\ util.result = lower(strip(util.email))

\* C22: calculate_percentage(part, total) raises ValueError, and returns no
\* number, for every pair in which part < 0 or total < 0.
C22_NegativeRaises ==
    (util.op = "calculate_percentage" /\ util.pc = "done"
        /\ (util.part < 0 \/ util.total < 0)) =>
            /\ util.raised = "ValueError"
            /\ util.result = None

\* Keys neither of which addresses a position on the way to the other's.
Unrelated(k1, k2) ==
    /\ ~IsPrefix(split(k1), split(k2))
    /\ ~IsPrefix(split(k2), split(k1))

\* C23: for every key k, value v and prior configuration, one with a
\* non-dictionary value at a proper prefix of k included, set(k, v) returns
\* true, get(k) then returns v, and every key that is not k, a prefix of k or
\* an extension of k keeps the value it had.
C23_SetGetRoundTrip ==
    (util.op = "set" /\ util.pc = "set") =>
        /\ util.raised = ""
        /\ util.result = TRUE
        /\ get(config[1], util.key).node = util.value
        /\ \A k \in ConfigKeys :
               Unrelated(k, util.key) =>
                   get(config[1], k) = get(util.before, k)

\* C24: truncate raises ValueError for a negative max_length; otherwise the
\* result is no longer than max_length, it is the text when the text is no
\* longer than max_length, and else a prefix of the text followed by the
\* suffix, or a prefix of the suffix when the suffix is longer than
\* max_length.
C24_TruncateBound ==
    (util.op = "truncate" /\ util.pc = "done") =>
        IF util.max_length < 0
        THEN util.raised = "ValueError"
        ELSE /\ util.raised = ""
             /\ Len(util.result) <= util.max_length
             /\ IF Len(util.text) <= util.max_length
                THEN util.result = util.text
                ELSE IF Len(util.suffix) > util.max_length
                THEN IsPrefix(util.result, util.suffix)
                ELSE \E n \in 0..Len(util.text) :
                        util.result = SubSeq(util.text, 1, n) \o util.suffix

\* A text longer than max_length was cut: the result has max_length
\* characters, some of the text and then the suffix.
C24_Witness ==
    /\ util.op = "truncate"
    /\ util.pc = "done"
    /\ util.raised = ""
    /\ Len(util.text) > util.max_length
    /\ util.suffix # <<>>
    /\ Len(util.suffix) < util.max_length
    /\ Len(util.result) = util.max_length
    /\ util.result[1] = util.text[1]

RECURSIVE SumOfSizes(_)
SumOfSizes(groups) ==
    IF groups = <<>> THEN 0 ELSE Len(Head(groups).v) + SumOfSizes(Tail(groups))

\* C25: when every item has the key, group_by_key returns groups with
\* distinct key values, the group of a value holding exactly the items with
\* that value, in input order; every item's value has a group and the sizes
\* sum to the number of items. When an item lacks the key it raises KeyError
\* and returns nothing.
C25_GroupByKeyPartitions ==
    (util.op = "group_by_key" /\ util.pc = "done") =>
        IF \A i \in 1..Len(util.items) : util.key \in DOMAIN util.items[i]
        THEN LET g == util.result
             IN  /\ util.raised = ""
                 /\ \A a, b \in 1..Len(g) : a # b => g[a].k # g[b].k
                 /\ \A a \in 1..Len(g) :
                        /\ g[a].v # <<>>
                        /\ g[a].v = SelectSeq(util.items,
                                              LAMBDA x : x[util.key] = g[a].k)
                 /\ \A i \in 1..Len(util.items) :
                        util.items[i][util.key] \in Keys(g)
                 /\ SumOfSizes(g) = Len(util.items)
        ELSE /\ util.raised = "KeyError"
             /\ util.result = None

\* Three items were put in two groups, one of them of two items.
C25_Witness ==
    /\ util.op = "group_by_key"
    /\ util.pc = "done"
    /\ util.raised = ""
    /\ Len(util.items) = 3
    /\ Len(util.result) = 2
    /\ \E a \in 1..2 : Len(util.result[a].v) = 2

----------------------------------------------------------------------------
(* Properties of the handlers on concurrent threads. get_user and get_tasks *)
(* are steps of SpecConc enabled on an idle thread in every state, so every *)
(* state of a delete_user in progress is one another request can read.      *)

\* C3: delete_user is atomic to concurrent observers. No state that another
\* request can read has some but not all of u's tasks removed while u still
\* exists, or has u gone after delete_user(u) while a task of u's that the
\* delete was to remove is still stored.
C3_DeleteUserAtomic ==
    /\ \A t \in Threads :
          LET f == inflight[t]
          IN  (f.op = "delete_user" /\ f.pc = "du_loop" /\ f.id \in Keys(users_db)) =>
                  ~(f.removed > 0 /\ Remaining(f) # <<>>)
    /\ (last.op = "delete_user" /\ last.id \notin Keys(users_db)) =>
          \A e \in OwnedBy(tasks_db, last.id) : e.k \notin Range(last.user_tasks)

\* C4: the owner check and the write of create_task and update_task are atomic
\* with respect to delete_user. No state holds a task whose user_id is the id
\* of a user that is no longer in users_db.
C4_CheckInsertAtomic ==
    \A e \in Range(tasks_db) :
        Truthy(e.v.user_id) => e.v.user_id[1] \in Keys(users_db)

\* C17: reset_database is atomic. No state that an interleaved request can
\* read has users_db already emptied by a reset_database in progress while
\* tasks_db still holds tasks; the case stated here is the one the claim
\* singles out, a task left whose user_id names a user.
C17_ResetAtomic ==
    \A t \in Threads :
        (inflight[t].op = "reset_database" /\ inflight[t].pc = "rd_tasks") =>
            ~(users_db = <<>> /\ \E e \in Range(tasks_db) : Truthy(e.v.user_id))

\* C26: cascade bookkeeping never fails. Whenever a delete_user in progress
\* has a task still to remove, the task it removes next is stored, and no
\* delete_user ends with an internal error while its user is still stored.
C26_CascadeNeverFails ==
    /\ \A t \in Threads :
          (inflight[t].pc = "du_loop" /\ Remaining(inflight[t]) # <<>>) =>
              Head(Remaining(inflight[t])) \in Keys(tasks_db)
    /\ ~(last.op = "delete_user" /\ last.status = 500
            /\ last.id \in Keys(users_db))

====
